---- MODULE Spec2Model ----
(***************************************************************************)
(* Model of the extractor demo: the Streamlit script app.py (upload, wait  *)
(* for the uploaded files, run the extractor) and agents/extractor.py      *)
(* (_wait_until_active and extractor_agent).  The remote inference service *)
(* is the environment: every status fetch and the generate call answer     *)
(* nondeterministically.                                                   *)
(***************************************************************************)
EXTENDS Integers, Sequences, FiniteSets, TLC

\* ------------------------------------------------------------------ bounds

\* Largest number of uploaded file references in one run.
MaxFiles == 2
\* timeout_s ranges over 0..MaxTimeout (the code's default is DefaultTimeout).
MaxTimeout == 3
\* A status fetch takes 0..MaxFetchDelay time units on the clock.
MaxFetchDelay == 1
\* A response text carries at most MaxPad whitespace tokens on either side.
MaxPad == 1
\* A classification lists at most MaxListLen indices, each in 0..MaxIndex.
MaxListLen == 2
MaxIndex == 1

\* ------------------------------------------------------- program constants

\* time.sleep(2)
SleepInterval == 2
\* timeout_s: int = 180
DefaultTimeout == 180

\* Python's None (an absent attribute or value).
None == "<None>"

\* ------------------------------------------------------------ file handles

\* The name the service gives the k-th uploaded file, and its retrieval URI.
NameOf(k) == IF k = 1 THEN "files/1" ELSE IF k = 2 THEN "files/2" ELSE "files/3"
UriOf(name) ==
    IF name = "files/1" THEN "uri/1"
    ELSE IF name = "files/2" THEN "uri/2"
    ELSE IF name = "files/3" THEN "uri/3" ELSE None

\* What the service can report as a file's state attribute: an enum member
\* (ACTIVE, PROCESSING, FAILED, STATE_UNSPECIFIED) or no state at all.
FileStates == {"PROCESSING", "ACTIVE", "FAILED", "STATE_UNSPECIFIED", None}

\* A file reference.  mime_type is a MIME type, None, or Absent when the
\* object has no such attribute.
Absent == "<absent>"
File(name, uri, mime, st) ==
    [name |-> name, uri |-> uri, mime_type |-> mime, state |-> st]
NoFile == File(None, None, None, None)
MimeTypes == {"image/png", None, Absent}

\* The handle of the k-th upload, in the state the upload left it: without a
\* name, or named without a URI, or named with a URI and any MIME type.
UploadedRefs(k) ==
    { File(None, None, None, "PROCESSING"),
      File(NameOf(k), None, None, "PROCESSING") }
    \cup { File(NameOf(k), UriOf(NameOf(k)), m, "PROCESSING") : m \in MimeTypes }

\* All lists of at most MaxFiles uploaded handles (position k holds upload k).
RECURSIVE FileLists(_)
FileLists(n) ==
    IF n = 0 THEN { <<>> }
    ELSE FileLists(n - 1) \cup
         { Append(l, r) : l \in { x \in FileLists(n - 1) : Len(x) = n - 1 },
                          r \in UploadedRefs(n) }

\* ------------------------------------------------------------- exceptions

Exc(type, name, st) == [type |-> type, name |-> name, state |-> st]
NoExc == Exc(None, None, None)
\* RuntimeError(f"Gemini file processing FAILED for: {fresh.name}")
ProcessingFailed(fresh) == Exc("RuntimeError", fresh.name, None)
\* TimeoutError(f"File not ACTIVE after {timeout_s}s. Current state: {state}")
Timeout(st) == Exc("TimeoutError", None, st)

\* ------------------------------------------------------ _wait_until_active

\* Line 43: the state's enum name, or str() of the attribute when it has none
\* (str(None) is the four letters "None").
StateName(fresh) == IF fresh.state = None THEN "None" ELSE fresh.state

\* The reference passed in handed back instead of the refreshed one.
ReturnedRef_Stale(f, fresh) == f

\* What line 45 hands back to the caller.
ReturnedRef(f, fresh) == fresh

\* The deadline test with >= for >.
DeadlinePassed_AtLeast(el, to) == el >= to

\* The deadline test that allows one more sleep.
DeadlinePassed_OneSleepLate(el, to) == el > to + SleepInterval

\* Line 48: the deadline test.
DeadlinePassed(el, to) == el > to

\* The outcome of one iteration of the while loop: a return, a raise or a
\* sleep, the status name it saw and the clock reading at its deadline test.
Step(kind, value, exc, st, el) ==
    [kind |-> kind, value |-> value, exc |-> exc, state |-> st, at |-> el]
NoStep == Step("none", NoFile, NoExc, None, 0)

\* The loop without its FAILED test: a failed file is waited for like a
\* processing one.
WaitIteration_IgnoresFailed(f, fresh, el, to) ==
    LET st == StateName(fresh) IN
    IF st = "ACTIVE" THEN Step("return", ReturnedRef(f, fresh), NoExc, st, el)
    ELSE IF DeadlinePassed(el, to) THEN Step("raise", NoFile, Timeout(st), st, el)
    ELSE Step("sleep", NoFile, NoExc, st, el)
\* The loop with the deadline test ahead of the status tests.
WaitIteration_DeadlineFirst(f, fresh, el, to) ==
    LET st == StateName(fresh) IN
    IF DeadlinePassed(el, to) THEN Step("raise", NoFile, Timeout(st), st, el)
    ELSE IF st = "ACTIVE" THEN Step("return", ReturnedRef(f, fresh), NoExc, st, el)
    ELSE IF st = "FAILED" THEN Step("raise", NoFile, ProcessingFailed(fresh), st, el)
    ELSE Step("sleep", NoFile, NoExc, st, el)
\* The loop taking a file that is still PROCESSING for a usable one.
WaitIteration_ProcessingReady(f, fresh, el, to) ==
    LET st == StateName(fresh) IN
    IF st \in {"ACTIVE", "PROCESSING"}
      THEN Step("return", ReturnedRef(f, fresh), NoExc, st, el)
    ELSE IF st = "FAILED" THEN Step("raise", NoFile, ProcessingFailed(fresh), st, el)
    ELSE IF DeadlinePassed(el, to) THEN Step("raise", NoFile, Timeout(st), st, el)
    ELSE Step("sleep", NoFile, NoExc, st, el)

\* An iteration that gives the wait up at the deadline and hands the
\* reference back as it is.
WaitIteration_TimeoutReturns(f, fresh, el, to) ==
    LET st == StateName(fresh) IN
    IF st = "ACTIVE" THEN Step("return", ReturnedRef(f, fresh), NoExc, st, el)
    ELSE IF st = "FAILED" THEN Step("raise", NoFile, ProcessingFailed(fresh), st, el)
    ELSE IF DeadlinePassed(el, to) THEN Step("return", ReturnedRef(f, fresh), NoExc, st, el)
    ELSE Step("sleep", NoFile, NoExc, st, el)
\* An iteration that tests the deadline after ACTIVE and before FAILED.
WaitIteration_DeadlineBeforeFailed(f, fresh, el, to) ==
    LET st == StateName(fresh) IN
    IF st = "ACTIVE" THEN Step("return", ReturnedRef(f, fresh), NoExc, st, el)
    ELSE IF DeadlinePassed(el, to) THEN Step("raise", NoFile, Timeout(st), st, el)
    ELSE IF st = "FAILED" THEN Step("raise", NoFile, ProcessingFailed(fresh), st, el)
    ELSE Step("sleep", NoFile, NoExc, st, el)

\* One iteration of the while loop (lines 42-50): fresh is the reference the
\* status fetch returned, el the clock reading time.time() - start after it.
WaitIteration(f, fresh, el, to) ==
    LET st == StateName(fresh) IN
    IF st = "ACTIVE" THEN Step("return", ReturnedRef(f, fresh), NoExc, st, el)
    ELSE IF st = "FAILED" THEN Step("raise", NoFile, ProcessingFailed(fresh), st, el)
    ELSE IF DeadlinePassed(el, to) THEN Step("raise", NoFile, Timeout(st), st, el)
    ELSE Step("sleep", NoFile, NoExc, st, el)

\* ------------------------------------------------------------ JSON values

\* A JSON / Python value: t is its type ("str", "int", "null", "arr", "obj"),
\* items the elements of an array or the members of an object (in insertion
\* order); a member carries its key in k.
JV(t, s, n, items) == [t |-> t, k |-> "", s |-> s, n |-> n, items |-> items]
JStr(s) == JV("str", s, 0, <<>>)
JInt(n) == JV("int", "", n, <<>>)
JNull == JV("null", "", 0, <<>>)
JArr(items) == JV("arr", "", 0, items)
JObj(members) == JV("obj", "", 0, members)
Member(key, v) == [v EXCEPT !.k = key]
Plain(m) == [m EXCEPT !.k = ""]

HasKey(obj, key) == \E i \in 1..Len(obj.items) : obj.items[i].k = key
Get(obj, key) ==
    Plain(obj.items[CHOOSE i \in 1..Len(obj.items) : obj.items[i].k = key])
\* d[key] = v on a Python dict: a known key keeps its place, a new one goes last.
SetMember(members, key, v) ==
    IF \E i \in 1..Len(members) : members[i].k = key
      THEN [i \in 1..Len(members) |->
              IF members[i].k = key THEN Member(key, v) ELSE members[i]]
      ELSE Append(members, Member(key, v))

\* A text is a sequence of tokens: punctuation, a string or integer literal,
\* null, whitespace ("ws"), or anything else ("bad").
Tok(k, s, n) == [k |-> k, s |-> s, n |-> n]
P(k) == Tok(k, "", 0)
WS == P("ws")

\* str.strip(): leading and trailing whitespace removed.
RECURSIVE LStrip(_)
LStrip(text) ==
    IF Len(text) > 0 /\ text[1].k = "ws" THEN LStrip(Tail(text)) ELSE text
RECURSIVE RStrip(_)
RStrip(text) ==
    IF Len(text) > 0 /\ text[Len(text)].k = "ws"
      THEN RStrip(SubSeq(text, 1, Len(text) - 1)) ELSE text
\* Only the leading whitespace removed.
Strip_LeadingOnly(text) == LStrip(text)
\* str.strip() (line 107).
Strip(text) == RStrip(LStrip(text))

\* json.dumps with the default separators ", " and ": ".
RECURSIVE Dumps(_)
RECURSIVE DumpItems(_, _, _)
DumpItems(items, i, isObj) ==
    IF i > Len(items) THEN <<>>
    ELSE (IF i > 1 THEN <<P(","), WS>> ELSE <<>>)
         \o (IF isObj THEN <<Tok("str", items[i].k, 0), P(":"), WS>> ELSE <<>>)
         \o Dumps(Plain(items[i]))
         \o DumpItems(items, i + 1, isObj)
\* Integers written as string literals.
Dumps_IntAsStr(v) ==
    CASE v.t = "str" -> << Tok("str", v.s, 0) >>
      [] v.t = "int" -> << Tok("str", "", v.n) >>
      [] v.t = "null" -> << P("null") >>
      [] v.t = "arr" -> <<P("[")>> \o DumpItems(v.items, 1, FALSE) \o <<P("]")>>
      [] v.t = "obj" -> <<P("{")>> \o DumpItems(v.items, 1, TRUE) \o <<P("}")>>
Dumps(v) ==
    CASE v.t = "str" -> << Tok("str", v.s, 0) >>
      [] v.t = "int" -> << Tok("int", "", v.n) >>
      [] v.t = "null" -> << P("null") >>
      [] v.t = "arr" -> <<P("[")>> \o DumpItems(v.items, 1, FALSE) \o <<P("]")>>
      [] v.t = "obj" -> <<P("{")>> \o DumpItems(v.items, 1, TRUE) \o <<P("}")>>

\* json.loads: a recursive-descent parse of the token sequence.
PR(ok, v, next) == [ok |-> ok, v |-> v, next |-> next]
ParseFail == PR(FALSE, JNull, 0)
RECURSIVE SkipWs(_, _)
SkipWs(toks, i) ==
    IF i <= Len(toks) /\ toks[i].k = "ws" THEN SkipWs(toks, i + 1) ELSE i
RECURSIVE ParseValue(_, _)
RECURSIVE ParseArray(_, _, _, _)
RECURSIVE ParseObject(_, _, _, _)
ParseValue(toks, i0) ==
    LET i == SkipWs(toks, i0) IN
    IF i > Len(toks) THEN ParseFail
    ELSE CASE toks[i].k = "str" -> PR(TRUE, JStr(toks[i].s), i + 1)
           [] toks[i].k = "int" -> PR(TRUE, JInt(toks[i].n), i + 1)
           [] toks[i].k = "null" -> PR(TRUE, JNull, i + 1)
           [] toks[i].k = "[" -> ParseArray(toks, SkipWs(toks, i + 1), <<>>, TRUE)
           [] toks[i].k = "{" -> ParseObject(toks, SkipWs(toks, i + 1), <<>>, TRUE)
           [] OTHER -> ParseFail
ParseArray(toks, i, acc, first) ==
    IF i > Len(toks) THEN ParseFail
    ELSE IF first /\ toks[i].k = "]" THEN PR(TRUE, JArr(acc), i + 1)
    ELSE LET r == ParseValue(toks, i)
             j == SkipWs(toks, r.next) IN
         IF ~r.ok \/ j > Len(toks) THEN ParseFail
         ELSE IF toks[j].k = "]" THEN PR(TRUE, JArr(Append(acc, r.v)), j + 1)
         ELSE IF toks[j].k = ","
           THEN ParseArray(toks, SkipWs(toks, j + 1), Append(acc, r.v), FALSE)
         ELSE ParseFail
ParseObject(toks, i, acc, first) ==
    IF i > Len(toks) THEN ParseFail
    ELSE IF first /\ toks[i].k = "}" THEN PR(TRUE, JObj(acc), i + 1)
    ELSE IF toks[i].k # "str" THEN ParseFail
    ELSE LET c == SkipWs(toks, i + 1) IN
         IF c > Len(toks) \/ toks[c].k # ":" THEN ParseFail
         ELSE LET r == ParseValue(toks, c + 1)
                  j == SkipWs(toks, r.next)
                  acc2 == SetMember(acc, toks[i].s, r.v) IN
              IF ~r.ok \/ j > Len(toks) THEN ParseFail
              ELSE IF toks[j].k = "}" THEN PR(TRUE, JObj(acc2), j + 1)
              ELSE IF toks[j].k = ","
                THEN ParseObject(toks, SkipWs(toks, j + 1), acc2, FALSE)
              ELSE ParseFail
\* json.loads(text): the value, or JSONDecodeError (ok = FALSE) when no value
\* can be read or something other than whitespace follows it.
JsonLoads(text) ==
    LET r == ParseValue(text, 1) IN
    IF r.ok /\ SkipWs(text, r.next) = Len(text) + 1
      THEN [ok |-> TRUE, v |-> r.v] ELSE [ok |-> FALSE, v |-> JNull]

\* -------------------------------------------------------- ExtractionResult

\* An ExtractionResult object (lines 17-20), and the absence of one.
Extraction(fc, pi, pr) ==
    [fileClassification |-> fc, projectInfo |-> pi, projectReport |-> pr]
NoExtraction == Extraction(JNull, JNull, JNull)

\* Dict[str, List[int]]: an object whose every value is an array of integers.
IsIntList(v) == v.t = "arr" /\ \A i \in 1..Len(v.items) : v.items[i].t = "int"
IsClassification(v) == v.t = "obj" /\ \A i \in 1..Len(v.items) : IsIntList(v.items[i])

\* Validation that looks for the three fields and not at their types.
Conforms_NoTypes(data) ==
    /\ data.t = "obj"
    /\ HasKey(data, "fileClassification")
    /\ HasKey(data, "projectInfo")
    /\ HasKey(data, "projectReport")

\* Whether data validates as an ExtractionResult: the three required fields,
\* each of its declared type.
Conforms(data) ==
    /\ data.t = "obj"
    /\ HasKey(data, "fileClassification")
    /\ IsClassification(Get(data, "fileClassification"))
    /\ HasKey(data, "projectInfo")
    /\ Get(data, "projectInfo").t = "obj"
    /\ HasKey(data, "projectReport")
    /\ Get(data, "projectReport").t = "str"

\* ExtractionResult.model_validate(data): the object, or ValidationError.
ModelValidate(data) ==
    IF Conforms(data)
      THEN [ok |-> TRUE,
            v |-> Extraction(Get(data, "fileClassification"),
                             Get(data, "projectInfo"),
                             Get(data, "projectReport"))]
      ELSE [ok |-> FALSE, v |-> NoExtraction]

\* extracted.model_dump(): the dict of the three fields in declaration order.
ModelDump(x) ==
    JObj(<< Member("fileClassification", x.fileClassification),
            Member("projectInfo", x.projectInfo),
            Member("projectReport", x.projectReport) >>)

\* ----------------------------------------------- the service's responses

\* {"drawingsFiles": [0, 2]}, {"owner": "Acme"}, "report"
SampleResult ==
    Extraction(JObj(<< Member("drawingsFiles", JArr(<< JInt(0), JInt(2) >>)) >>),
               JObj(<< Member("owner", JStr("Acme")) >>),
               JStr("report"))
\* Every field present and empty.
EmptyResult == Extraction(JObj(<<>>), JObj(<<>>), JStr(""))

SampleText == Dumps(ModelDump(SampleResult))
EmptyText == Dumps(ModelDump(EmptyResult))
\* Valid JSON that is no ExtractionResult: a field missing, a field of the
\* wrong type, a value that is no object.
MissingFieldText ==
    Dumps(JObj(<< Member("fileClassification", JObj(<<>>)),
                  Member("projectInfo", JObj(<<>>)) >>))
WrongTypeText ==
    Dumps(JObj(<< Member("fileClassification", JObj(<< Member("drawings", JStr("all")) >>)),
                  Member("projectInfo", JObj(<<>>)),
                  Member("projectReport", JStr("r")) >>))
ArrayText == Dumps(JArr(<< JInt(1) >>))
\* Text that is no JSON: a truncated body, prose, nothing but whitespace.
TruncatedText == SubSeq(SampleText, 1, Len(SampleText) - 2)
ProseText == << P("bad") >>

\* The texts above and the empty text, each between a leading and a trailing
\* run of at most MaxPad whitespace tokens.
RECURSIVE Pad(_)
Pad(n) == IF n = 0 THEN <<>> ELSE <<WS>> \o Pad(n - 1)
Bodies ==
    { SampleText, EmptyText, MissingFieldText, WrongTypeText, ArrayText,
      TruncatedText, ProseText, <<>> }

\* response.text when the response has none (None), and its replacement by
\* the empty string in (response.text or "").
NoText == << P(None) >>
TextOr(text) == IF text = NoText THEN <<>> ELSE text
Texts == { Pad(a) \o b \o Pad(a) : b \in Bodies, a \in 0..MaxPad }

\* A response of generate_content: parsed is the typed object or NoParsed.
NoParsed == NoExtraction
Response(parsed, text) == [parsed |-> parsed, text |-> text]
NoResponse == Response(NoParsed, NoText)
Responses ==
    { Response(r, Dumps(ModelDump(r))) : r \in {SampleResult, EmptyResult} }
    \cup { Response(SampleResult, ProseText) }
    \cup { Response(NoParsed, t) : t \in Texts \cup {NoText} }

\* What generate_content can raise: API errors (authentication and quota are
\* ClientError, service failures ServerError) and transport errors.
GenerateErrors ==
    { Exc("ClientError", None, None), Exc("ServerError", None, None),
      Exc("ConnectError", None, None) }
IsAPIError(exc) == exc.type \in {"APIError", "ClientError", "ServerError"}

\* ------------------------------------------- extractor_agent: its pieces

\* BidState(): the workflow state as created fresh.
Unset == JNull
BidState ==
    [gemini_files |-> <<>>, errors |-> <<>>, file_classification |-> Unset,
     project_info |-> Unset, project_report |-> Unset, raw_extractor_output |-> NoText]

Err(msg, exc) == [msg |-> msg, exc |-> exc]

\* The except clauses: whether the exception is caught, and the message.
\* Lines 64-66.
ActivationHandler(exc) == [caught |-> TRUE, msg |-> "File activation error"]
\* Only the first except clause (APIError): any other exception escapes.
GenerateHandler_APIOnly(exc) ==
    IF IsAPIError(exc) THEN [caught |-> TRUE, msg |-> "Extractor Gemini APIError"]
    ELSE [caught |-> FALSE, msg |-> None]
\* Lines 94-99.
GenerateHandler(exc) ==
    IF IsAPIError(exc) THEN [caught |-> TRUE, msg |-> "Extractor Gemini APIError"]
    ELSE [caught |-> TRUE, msg |-> "Extractor Gemini call error"]
\* Lines 112-114.
ParseHandler(exc) ==
    IF exc.type \in {"JSONDecodeError", "ValidationError"}
      THEN [caught |-> TRUE, msg |-> "Extractor JSON parse/validate error"]
      ELSE [caught |-> FALSE, msg |-> None]

\* Line 60: the references the activation loop skips.
Skipped(f) == f.name = None
\* No filter on the URI: every reference goes into the request.
WithUri_All(files) == files
\* Line 68: the references that go into the request.
RECURSIVE WithUri(_)
WithUri(files) ==
    IF files = <<>> THEN <<>>
    ELSE (IF Head(files).uri # None THEN << Head(files) >> ELSE <<>>)
         \o WithUri(Tail(files))
\* Lines 76-83: the prompt, then one URI part per file.
Prompt == [file_uri |-> None, mime_type |-> None, text |-> "prompt"]
PartFromUri(f) ==
    [file_uri |-> f.uri,
     mime_type |-> IF f.mime_type = Absent THEN "application/pdf" ELSE f.mime_type,
     text |-> None]
\* The parts in reverse order, the prompt after them.
Contents_Reversed(files) ==
    [k \in 1..Len(files) |-> PartFromUri(files[Len(files) + 1 - k])] \o << Prompt >>
\* Line 83: contents = [prompt, *parts].
Contents(files) == << Prompt >> \o [k \in 1..Len(files) |-> PartFromUri(files[k])]

\* Lines 101-114: the raw output stored, the object extracted, and the
\* exception raised on the way, if any.
Resolved(raw, x, exc) == [raw |-> raw, extracted |-> x, exc |-> exc]
\* The response text parsed and validated even when a parsed object is at hand.
ResolveResponse_TextFirst(response) ==
    LET response_text == Strip(TextOr(response.text))
        data == JsonLoads(response_text)
        valid == ModelValidate(data.v) IN
    IF ~data.ok
      THEN Resolved(response_text, NoExtraction, Exc("JSONDecodeError", None, None))
    ELSE IF ~valid.ok
      THEN Resolved(response_text, NoExtraction, Exc("ValidationError", None, None))
    ELSE Resolved(response_text, valid.v, NoExc)
\* Lines 103-105 when the response has a parsed object, lines 107-114 otherwise.
ResolveResponse(response) ==
    IF response.parsed # NoParsed
      THEN Resolved(Dumps(ModelDump(response.parsed)), response.parsed, NoExc)
    ELSE LET response_text == Strip(TextOr(response.text))
             data == JsonLoads(response_text)
             valid == ModelValidate(data.v) IN
         IF ~data.ok
           THEN Resolved(response_text, NoExtraction, Exc("JSONDecodeError", None, None))
         ELSE IF ~valid.ok
           THEN Resolved(response_text, NoExtraction, Exc("ValidationError", None, None))
         ELSE Resolved(response_text, valid.v, NoExc)

\* ------------------------------------------------------------------ state

VARIABLES
    caller,      \* "app": the Streamlit script runs; "direct": extractor_agent is called on a fresh state
    pc,          \* where the run is
    uploaded,    \* app.py's list gemini_files, the handles client.files.upload returned
    state,       \* the BidState
    i,           \* the for loop's position in its list (1-based)
    active,      \* app.py's active / extractor_agent's active_files
    f,           \* the reference _wait_until_active was called with
    timeout_s,   \* that call's timeout_s
    elapsed,     \* time.time() - start in that call
    fetches,     \* status fetches of that call so far
    fresh,       \* the reference the service returned to the latest of them
    processing,  \* how many of those fetches the service answered PROCESSING
    sleeps,      \* time.sleep calls of that call so far
    slept,       \* the time those sleeps were asked to take, in total
    last,        \* the outcome of that call's latest iteration
    contents,    \* the contents of the generate request
    response,    \* the response of generate_content
    uncaught,    \* the exception that left the script uncaught, if any
    hist,        \* what the service has seen and said during the run
    rt           \* an ExtractionResult on its way through json.dumps and back

\* The frame of the running (or just finished) _wait_until_active call.
pollVars ==
    << f, timeout_s, elapsed, fetches, fresh, processing, sleeps, slept, last >>

vars ==
    << caller, pc, uploaded, state, i, active, pollVars, contents, response,
       uncaught, hist, rt >>

\* The history of a run that has not begun: entered says whether
\* extractor_agent has been called, entry is state.gemini_files as it found
\* it, app_polled and polled are the names the script and extractor_agent
\* fetched the status of, activated the names a fetch inside extractor_agent
\* reported ACTIVE, generates counts the generate_content calls, gen_error is
\* what the service raised in one, failed and timedout say whether a fetch
\* reported FAILED and whether a call ran out of time.
NoHistory(entered, files) ==
    [entered |-> entered, entry |-> files, app_polled |-> {}, polled |-> {}, activated |-> {},
     generates |-> 0, gen_error |-> NoExc, failed |-> FALSE, timedout |-> FALSE]

\* rt holds an object, its serialization, and what parsing and validating
\* that text gave; in a run of the workflow no object is on its way.
RoundTrip(stage, obj, text, ok, back) ==
    [stage |-> stage, obj |-> obj, text |-> text, ok |-> ok, back |-> back]
NoRoundTrip == RoundTrip("none", NoExtraction, <<>>, FALSE, NoExtraction)

Named(files) == \A k \in 1..Len(files) : files[k].name # None

\* No _wait_until_active call is running: its frame is gone.
NoCall ==
    /\ f = NoFile
    /\ timeout_s = DefaultTimeout
    /\ elapsed = 0
    /\ fetches = 0
    /\ fresh = NoFile
    /\ processing = 0
    /\ sleeps = 0
    /\ slept = 0
    /\ last = NoStep

Init ==
    /\ caller \in {"app", "direct"}
    /\ \E files \in FileLists(MaxFiles) :
         IF caller = "app"
           THEN /\ Named(files)
                /\ uploaded = files
                /\ state = BidState
                /\ pc = "app_for"
                /\ hist = NoHistory(FALSE, <<>>)
           ELSE /\ uploaded = <<>>
                /\ state = [BidState EXCEPT !.gemini_files = files]
                /\ pc = "agent_for"
                /\ hist = NoHistory(TRUE, files)
    /\ i = 1
    /\ active = <<>>
    /\ NoCall
    /\ contents = <<>>
    /\ response = NoResponse
    /\ uncaught = NoExc
    /\ rt = NoRoundTrip

\* _wait_until_active(client, ref, timeout_s) is entered: start = time.time()
\* (lines 38-40).
CallWait(ref) ==
    /\ f' = ref
    /\ timeout_s' \in 0..MaxTimeout
    /\ elapsed' = 0
    /\ fetches' = 0
    /\ fresh' = NoFile
    /\ processing' = 0
    /\ sleeps' = 0
    /\ slept' = 0
    /\ last' = NoStep

\* The caller has moved on from the last _wait_until_active call.
EndWait ==
    /\ f' = NoFile
    /\ timeout_s' = DefaultTimeout
    /\ elapsed' = 0
    /\ fetches' = 0
    /\ fresh' = NoFile
    /\ processing' = 0
    /\ sleeps' = 0
    /\ slept' = 0
    /\ last' = NoStep

\* The status fetch of line 42 as the service answers it: the reference of
\* that name (the service reports the URI and MIME type the handle carries)
\* in the state st the file is in now.
Fetched(st) == [f EXCEPT !.state = st]

\* What one loop iteration leaves in the call's frame and in the history: the
\* service answered fr, res is the iteration's outcome, and the time.sleep(2)
\* of line 50 is part of the iteration.
Iterate(fr, res, inAgent) ==
    /\ fetches' = fetches + 1
    /\ fresh' = fr
    /\ processing' = processing + (IF fr.state = "PROCESSING" THEN 1 ELSE 0)
    /\ last' = res
    /\ sleeps' = sleeps + (IF res.kind = "sleep" THEN 1 ELSE 0)
    /\ slept' = slept + (IF res.kind = "sleep" THEN SleepInterval ELSE 0)
    /\ elapsed' = res.at + (IF res.kind = "sleep" THEN SleepInterval ELSE 0)
    /\ hist' = [hist EXCEPT
                  !.app_polled = IF inAgent THEN @ ELSE @ \cup {f.name},
                  !.polled = IF inAgent THEN @ \cup {f.name} ELSE @,
                  !.activated = IF inAgent /\ fr.state = "ACTIVE"
                                  THEN @ \cup {f.name} ELSE @,
                  !.failed = @ \/ fr.state = "FAILED",
                  !.timedout = @ \/ res.exc.type = "TimeoutError"]
    /\ UNCHANGED << f, timeout_s >>

\* ------------------------------------------------------------------ app.py

\* Lines 38-39: the next uploaded file is handed to _wait_until_active.
AppCallWait ==
    /\ pc = "app_for"
    /\ i <= Len(uploaded)
    /\ CallWait(uploaded[i])
    /\ pc' = "app_wait"
    /\ UNCHANGED << rt, caller, uploaded, state, i, active, contents,
                    response, uncaught, hist >>

\* Line 39: one iteration of _wait_until_active, called from the script.  A
\* returned reference is appended to active; an exception is not caught.
AppWait ==
    /\ pc = "app_wait"
    /\ \E st \in FileStates, d \in 0..MaxFetchDelay :
         LET res == WaitIteration(f, Fetched(st), elapsed + d, timeout_s) IN
         /\ Iterate(Fetched(st), res, FALSE)
         /\ CASE res.kind = "return" ->
                   /\ active' = Append(active, res.value)
                   /\ i' = i + 1
                   /\ pc' = "app_for"
                   /\ UNCHANGED uncaught
              [] res.kind = "raise" ->
                   /\ uncaught' = res.exc
                   /\ pc' = "raised"
                   /\ UNCHANGED << active, i >>
              [] OTHER -> UNCHANGED << active, i, pc, uncaught >>
    /\ UNCHANGED << rt, caller, uploaded, state, contents, response >>

\* Lines 40-43: state.gemini_files = active, then extractor_agent(state) is
\* entered (line 58: active_files = []).
AppRunExtractor ==
    /\ pc = "app_for"
    /\ i > Len(uploaded)
    /\ state' = [state EXCEPT !.gemini_files = active]
    /\ i' = 1
    /\ active' = <<>>
    /\ pc' = "agent_for"
    /\ hist' = [hist EXCEPT !.entered = TRUE, !.entry = active]
    /\ UNCHANGED << rt, caller, uploaded, contents, response, uncaught >>
    /\ EndWait

\* --------------------------------------------------------- extractor_agent

\* state.errors.append(msg + detail).
AppendError(st, msg, exc) == [st EXCEPT !.errors = Append(@, Err(msg, exc))]
\* The classification and the project information stored in each other's place.
StoreResult_Swapped(st, r) ==
    [st EXCEPT !.raw_extractor_output = r.raw,
               !.file_classification = r.extracted.projectInfo,
               !.project_info = r.extracted.fileClassification,
               !.project_report = r.extracted.projectReport]
\* Lines 105/108 and 116-118: the raw output and the three result fields.
StoreResult(st, r) ==
    [st EXCEPT !.raw_extractor_output = r.raw,
               !.file_classification = r.extracted.fileClassification,
               !.project_info = r.extracted.projectInfo,
               !.project_report = r.extracted.projectReport]
\* A parse/validate failure that still keeps the projectInfo it could read.
ParseFailure_Partial(st, r, msg) ==
    LET data == JsonLoads(r.raw)
        partial == IF data.ok /\ data.v.t = "obj" /\ HasKey(data.v, "projectInfo")
                     THEN Get(data.v, "projectInfo") ELSE st.project_info IN
    AppendError([st EXCEPT !.raw_extractor_output = r.raw, !.project_info = partial],
                msg, r.exc)
\* Lines 108 and 113: the raw output and the parse/validate error.
ParseFailure(st, r, msg) ==
    AppendError([st EXCEPT !.raw_extractor_output = r.raw], msg, r.exc)

\* The except clause that also stores the references activated so far.
Fail_KeepsActivated(handler, exc) ==
    IF handler.caught
      THEN /\ state' = AppendError([state EXCEPT !.gemini_files = active], handler.msg, exc)
           /\ pc' = "returned"
           /\ UNCHANGED uncaught
      ELSE /\ uncaught' = exc
           /\ pc' = "raised"
           /\ UNCHANGED state
\* state.errors.append(msg) and return state, or the exception leaving
\* extractor_agent when no except clause catches it.
Fail(handler, exc) ==
    IF handler.caught
      THEN /\ state' = AppendError(state, handler.msg, exc)
           /\ pc' = "returned"
           /\ UNCHANGED uncaught
      ELSE /\ uncaught' = exc
           /\ pc' = "raised"
           /\ UNCHANGED state

\* Lines 59-61: a reference without a name is passed over.
AgentSkip ==
    /\ pc = "agent_for"
    /\ i <= Len(state.gemini_files)
    /\ Skipped(state.gemini_files[i])
    /\ i' = i + 1
    /\ UNCHANGED << rt, caller, pc, uploaded, state, active, contents,
                    response, uncaught, hist >>
    /\ EndWait

\* Line 62: the next named reference is handed to _wait_until_active.
AgentCallWait ==
    /\ pc = "agent_for"
    /\ i <= Len(state.gemini_files)
    /\ ~Skipped(state.gemini_files[i])
    /\ CallWait(state.gemini_files[i])
    /\ pc' = "agent_wait"
    /\ UNCHANGED << rt, caller, uploaded, state, i, active, contents,
                    response, uncaught, hist >>

\* Line 62 with lines 64-66: one iteration of _wait_until_active, called from
\* extractor_agent.  A returned reference is appended to active_files; an
\* exception ends the workflow with a "File activation error".
AgentWait ==
    /\ pc = "agent_wait"
    /\ \E st \in FileStates, d \in 0..MaxFetchDelay :
         LET res == WaitIteration(f, Fetched(st), elapsed + d, timeout_s) IN
         /\ Iterate(Fetched(st), res, TRUE)
         /\ CASE res.kind = "return" ->
                   /\ active' = Append(active, res.value)
                   /\ i' = i + 1
                   /\ pc' = "agent_for"
                   /\ UNCHANGED << state, uncaught >>
              [] res.kind = "raise" ->
                   /\ Fail(ActivationHandler(res.exc), res.exc)
                   /\ UNCHANGED << active, i >>
              [] OTHER -> UNCHANGED << active, i, pc, state, uncaught >>
    /\ UNCHANGED << rt, caller, uploaded, contents, response >>

\* Lines 63 and 68-71: the loop is over, state.gemini_files = active_files,
\* and no reference has a URI.
AgentNoValidFiles ==
    /\ pc = "agent_for"
    /\ i > Len(state.gemini_files)
    /\ WithUri(active) = <<>>
    /\ state' = AppendError([state EXCEPT !.gemini_files = active],
                             "Extractor error: no valid uploaded Gemini files", NoExc)
    /\ pc' = "returned"
    /\ UNCHANGED << rt, caller, uploaded, i, active, contents, response,
                    uncaught, hist >>
    /\ EndWait

\* Whether line 86 is reached: the activation loop is over and some reference
\* has a URI.
GenerateReached ==
    /\ pc = "agent_for"
    /\ i > Len(state.gemini_files)
    /\ WithUri(active) # <<>>

\* Lines 63, 68-83 and 85-99: the request is built and generate_content
\* raises.
AgentGenerateFails ==
    /\ GenerateReached
    /\ contents' = Contents(WithUri(active))
    /\ \E exc \in GenerateErrors :
         /\ hist' = [hist EXCEPT !.generates = @ + 1, !.gen_error = exc]
         /\ IF GenerateHandler(exc).caught
              THEN /\ state' = AppendError([state EXCEPT !.gemini_files = active],
                                           GenerateHandler(exc).msg, exc)
                   /\ pc' = "returned"
                   /\ UNCHANGED uncaught
              ELSE /\ state' = [state EXCEPT !.gemini_files = active]
                   /\ uncaught' = exc
                   /\ pc' = "raised"
    /\ UNCHANGED << rt, caller, uploaded, i, active, response >>
    /\ EndWait

\* Lines 63, 68-83 and 85-93: the request is built and generate_content
\* returns a response.
AgentGenerate ==
    /\ GenerateReached
    /\ contents' = Contents(WithUri(active))
    /\ hist' = [hist EXCEPT !.generates = @ + 1]
    /\ state' = [state EXCEPT !.gemini_files = active]
    /\ response' \in Responses
    /\ pc' = "agent_resolve"
    /\ UNCHANGED << rt, caller, uploaded, i, active, uncaught >>
    /\ EndWait

\* Lines 101-118: the response is resolved into the three result fields, or
\* into a parse/validate error.  (The partition of the file indices that
\* follows line 118 touches none of the fields modelled here.)
AgentResolve ==
    /\ pc = "agent_resolve"
    /\ LET r == ResolveResponse(response) IN
       IF r.exc # NoExc
         THEN IF ParseHandler(r.exc).caught
                THEN /\ state' = ParseFailure(state, r, ParseHandler(r.exc).msg)
                     /\ pc' = "returned"
                     /\ UNCHANGED uncaught
                ELSE /\ state' = [state EXCEPT !.raw_extractor_output = r.raw]
                     /\ uncaught' = r.exc
                     /\ pc' = "raised"
         ELSE /\ state' = StoreResult(state, r)
              /\ pc' = "returned"
              /\ UNCHANGED uncaught
    /\ UNCHANGED << rt, caller, uploaded, i, active, contents, response,
                    hist, pollVars >>

Next ==
    \/ AppCallWait
    \/ AppWait
    \/ AppRunExtractor
    \/ AgentSkip
    \/ AgentCallWait
    \/ AgentWait
    \/ AgentNoValidFiles
    \/ AgentGenerateFails
    \/ AgentGenerate
    \/ AgentResolve

Spec == Init /\ [][Next]_vars

\* The script is synchronous: a _wait_until_active call that is running goes
\* on to its next iteration, every status fetch returning.
FairSpec == Spec /\ WF_vars(AppWait) /\ WF_vars(AgentWait)

\* ------------------------------------------------- serialize and parse back

\* The lists of at most n indices.
RECURSIVE IntLists(_)
IntLists(n) ==
    IF n = 0 THEN { <<>> }
    ELSE IntLists(n - 1) \cup
         { Append(l, x) : l \in { m \in IntLists(n - 1) : Len(m) = n - 1 }, x \in 0..MaxIndex }
IndexArrays == { JArr([k \in 1..Len(l) |-> JInt(l[k])]) : l \in IntLists(MaxListLen) }
\* Dict[str, List[int]] over the keys line 121 reads.
Classifications ==
    {JObj(<<>>)}
      \cup { JObj(<< Member(k, a) >>) : k \in {"drawingsFiles", "drawings"}, a \in IndexArrays }
      \cup { JObj(<< Member("drawingsFiles", a), Member("drawings", b) >>) :
               a \in IndexArrays, b \in IndexArrays }
\* Dict[str, Any]: strings, integers, null, a list and a nested dict.
InfoValues ==
    { JStr("Acme"), JStr(""), JInt(MaxIndex), JNull, JArr(<< JStr("a"), JNull >>),
      JObj(<< Member("city", JStr("Oslo")) >>) }
ProjectInfos == {JObj(<<>>)} \cup { JObj(<< Member("owner", v) >>) : v \in InfoValues }
Reports == { JStr(""), JStr("report") }
ExtractionResults ==
    { Extraction(fc, pi, pr) : fc \in Classifications, pi \in ProjectInfos, pr \in Reports }

\* An ExtractionResult is at hand and no workflow runs.
InitRoundTrip ==
    /\ rt \in { RoundTrip("object", x, <<>>, FALSE, NoExtraction) : x \in ExtractionResults }
    /\ caller = "direct"
    /\ pc = "returned"
    /\ uploaded = <<>>
    /\ state = BidState
    /\ hist = NoHistory(FALSE, <<>>)
    /\ i = 1
    /\ active = <<>>
    /\ NoCall
    /\ contents = <<>>
    /\ response = NoResponse
    /\ uncaught = NoExc

\* Lines 104-105: the object is serialized as it is for the raw output.
Serialize ==
    /\ rt.stage = "object"
    /\ rt' = [rt EXCEPT !.stage = "serialized",
                        !.text = ResolveResponse(Response(rt.obj, NoText)).raw]
    /\ UNCHANGED << caller, pc, uploaded, state, i, active, pollVars, contents,
                    response, uncaught, hist >>

\* Lines 107-111: that text comes back as a response text and is parsed and
\* validated.
ParseBack ==
    /\ rt.stage = "serialized"
    /\ LET r == ResolveResponse(Response(NoParsed, rt.text)) IN
       rt' = [rt EXCEPT !.stage = "parsed", !.ok = (r.exc = NoExc), !.back = r.extracted]
    /\ UNCHANGED << caller, pc, uploaded, state, i, active, pollVars, contents,
                    response, uncaught, hist >>

NextRoundTrip ==
    \/ Serialize
    \/ ParseBack

SpecRoundTrip == InitRoundTrip /\ [][NextRoundTrip]_vars

\* ------------------------------------------------------------ properties

\* The error taxonomy: which kind of failure an entry of state.errors reports.
IsProcessingFailed(e) == e.msg = "File activation error" /\ e.exc.type = "RuntimeError"
IsTimeout(e) == e.msg = "File activation error" /\ e.exc.type = "TimeoutError"
IsFileActivation(e) == e.msg = "File activation error"
IsNoValidFiles(e) == e.msg = "Extractor error: no valid uploaded Gemini files"
IsInvocationError(e) ==
    e.msg \in {"Extractor Gemini APIError", "Extractor Gemini call error"}
IsParseValidation(e) == e.msg = "Extractor JSON parse/validate error"

ResultsUnset ==
    /\ state.file_classification = Unset
    /\ state.project_info = Unset
    /\ state.project_report = Unset
ResultsPopulated ==
    /\ state.file_classification # Unset
    /\ state.project_info # Unset
    /\ state.project_report # Unset

AllLackUri(files) == \A k \in 1..Len(files) : files[k].uri = None
NamesOf(files) == { files[k].name : k \in 1..Len(files) } \ {None}
InWait == pc \in {"app_wait", "agent_wait"}
\* The status name line 43 gives the service's latest answer.
FreshName == IF fresh.state = None THEN "None" ELSE fresh.state

\* C1: at every point of a run on a fresh state, a non-empty error list means
\* that file_classification, project_info and project_report are all still
\* unset, and once the three are populated the error list is empty.
C1_ErrorsExcludeResults ==
    /\ state.errors # <<>> => ResultsUnset
    /\ ResultsPopulated => state.errors = <<>>
\* A run that ended in a parse/validate error on a body holding a usable
\* projectInfo, with the raw output stored and no result field set.
C1_Witness ==
    /\ pc = "returned"
    /\ response.parsed = NoParsed
    /\ Strip(response.text) = WrongTypeText
    /\ Len(state.errors) = 1
    /\ state.raw_extractor_output = WrongTypeText

\* C2: no failure leaves the workflow as an exception: a file reporting FAILED,
\* a poll running out of time or a failing generate call ends with a message
\* in state.errors and the state returned.
C2_NoFailureEscapes ==
    /\ uncaught = NoExc
    /\ (hist.failed \/ hist.timedout \/ hist.gen_error # NoExc)
         => (pc = "returned" /\ state.errors # <<>>)

\* C3 as stated: when every reference extractor_agent finds in the state lacks
\* a URI, it ends with the NoValidFiles error alone, having issued no status
\* fetch and no generate call.
C3_NoNetworkCall ==
    (hist.entered /\ AllLackUri(hist.entry))
      => /\ hist.polled = {}
         /\ hist.generates = 0
         /\ pc = "returned" => (Len(state.errors) = 1 /\ IsNoValidFiles(state.errors[1]))
\* C3 as amended: when the activation step went through and every reference
\* it left in the state lacks a URI, extractor_agent ends with the
\* NoValidFiles error alone and has issued no generate call; the status
\* fetches of the named references are the only calls to the service.
C3_NoGenerateCall ==
    (/\ pc = "returned"
     /\ \A k \in 1..Len(state.errors) : ~IsFileActivation(state.errors[k])
     /\ AllLackUri(state.gemini_files))
      => /\ Len(state.errors) = 1
         /\ IsNoValidFiles(state.errors[1])
         /\ hist.generates = 0
         /\ hist.polled = NamesOf(hist.entry)
\* Named references without a URI were polled, and the run then ended with
\* NoValidFiles.
C3_Witness ==
    /\ pc = "returned"
    /\ Len(state.errors) = 1
    /\ IsNoValidFiles(state.errors[1])
    /\ hist.polled # {}
    /\ Len(state.gemini_files) = 2

\* C4: once a status fetch reports FAILED, _wait_until_active has raised the
\* ProcessingFailed error naming the file, whatever the clock says, and that
\* call fetches no status and sleeps no more.
C4_FailedEndsPolling ==
    /\ [](fresh.state = "FAILED"
            => /\ last.kind = "raise"
               /\ last.exc = Exc("RuntimeError", f.name, None)
               /\ ~InWait)
    /\ [][fresh.state = "FAILED"
            => /\ fetches' = fetches
               /\ sleeps' = sleeps
               /\ hist'.polled = hist.polled
               /\ hist'.app_polled = hist.app_polled]_vars
\* FAILED reported on a later poll, after the deadline had passed.
C4_Witness ==
    /\ fresh.state = "FAILED"
    /\ fetches >= 2
    /\ last.at > timeout_s
    /\ last.exc.type = "RuntimeError"

\* C5: a call whose fetches never report ACTIVE or FAILED goes on only while
\* the elapsed time is within timeout_s, ends with the Timeout error as soon
\* as a deadline test finds it exceeded, the error naming the status of the last
\* fetch, and never returns a reference.
C5_TimeoutWhenNeverReady ==
    /\ (last.kind = "raise" /\ fresh.state \notin {"ACTIVE", "FAILED"})
         => (last.exc = Exc("TimeoutError", None, FreshName) /\ last.at > timeout_s)
    /\ (fetches > 0 /\ fresh.state \notin {"ACTIVE", "FAILED"} /\ last.at > timeout_s)
         => last.kind = "raise"
    /\ last.kind = "return" => fresh.state = "ACTIVE"
\* A file that stayed PROCESSING through several polls until the timeout.
C5_Witness ==
    /\ last.exc.type = "TimeoutError"
    /\ fetches >= 2
    /\ processing = fetches
    /\ last.exc.state = "PROCESSING"

\* C6: when the fetches of a call report PROCESSING k times and then ACTIVE,
\* the call returns the reference that last fetch obtained, after exactly k
\* sleeps of 2 time units each.
C6_ReturnsRefreshedAfterKSleeps ==
    (fetches >= 1 /\ fresh.state = "ACTIVE" /\ processing = fetches - 1)
      => /\ last.kind = "return"
         /\ last.value = fresh
         /\ last.value.state = "ACTIVE"
         /\ sleeps = fetches - 1
         /\ slept = 2 * (fetches - 1)
\* Two PROCESSING polls, then ACTIVE: the refreshed reference comes back in
\* place of the PROCESSING handle passed in.
C6_Witness ==
    /\ last.kind = "return"
    /\ fetches = 3
    /\ processing = 2
    /\ f.state = "PROCESSING"
    /\ last.value.state = "ACTIVE"
    /\ sleeps = 2

\* C7: a call whose first fetch reports ACTIVE has returned that reference
\* after this one fetch and no sleep, whatever timeout_s is and however long
\* the fetch took.
C7_ActiveAtOnce ==
    (fetches = 1 /\ fresh.state = "ACTIVE")
      => /\ last.kind = "return"
         /\ last.value = fresh
         /\ sleeps = 0
         /\ slept = 0
         /\ ~InWait
\* ACTIVE at once with timeout_s = 0 and a fetch that took longer than that.
C7_Witness ==
    /\ fetches = 1
    /\ fresh.state = "ACTIVE"
    /\ timeout_s = 0
    /\ last.at > 0
    /\ last.kind = "return"

\* C8: the generate call is issued only after a status fetch inside
\* extractor_agent reported every named reference of the state ACTIVE, never
\* in a run where a file reported FAILED or a wait timed out; nothing is
\* parsed before the generate call and nothing is polled after it.
C8_WaitThenGenerateThenParse ==
    /\ hist.generates > 0
         => /\ NamesOf(hist.entry) \subseteq hist.activated
            /\ ~hist.failed
            /\ ~hist.timedout
    /\ (state.raw_extractor_output # NoText \/ ~ResultsUnset) => hist.generates > 0
    /\ pc \in {"app_for", "app_wait", "agent_for", "agent_wait"} => hist.generates = 0
\* Two files, both seen ACTIVE, and a response waiting to be parsed.
C8_Witness ==
    /\ pc = "agent_resolve"
    /\ Cardinality(hist.activated) = 2
    /\ hist.generates = 1

\* C9: generate_content is called at most once in a run, and when it raises,
\* the run ends with exactly one InvocationError message carrying that
\* exception, the call made once, the result fields and the raw output unset.
C9_GenerateOnceNoRetry ==
    /\ hist.generates <= 1
    /\ hist.gen_error # NoExc
         => /\ pc = "returned"
            /\ hist.generates = 1
            /\ Len(state.errors) = 1
            /\ IsInvocationError(state.errors[1])
            /\ state.errors[1].exc = hist.gen_error
            /\ ResultsUnset
            /\ state.raw_extractor_output = NoText
\* A transport error (no APIError) in the generate call, reported and returned.
C9_Witness ==
    /\ pc = "returned"
    /\ hist.gen_error.type = "ConnectError"
    /\ Len(state.errors) = 1

\* The response texts that are no JSON, and those that are JSON but no
\* ExtractionResult, with the whitespace around them.
Padded(bodies) == { Pad(a) \o b \o Pad(a) : b \in bodies, a \in 0..MaxPad }
NotJson == Padded({TruncatedText, ProseText, <<>>}) \cup {NoText}
NotConforming == Padded({MissingFieldText, WrongTypeText, ArrayText})

ResponseResolved ==
    /\ pc = "returned"
    /\ hist.generates = 1
    /\ hist.gen_error = NoExc

\* C11: when the generate call succeeds and the response body is valid JSON
\* that matches the schema, the run returns with an empty error list and with
\* file_classification, project_info and project_report equal to the
\* fileClassification, projectInfo and projectReport of that body.
C11_ValidBodyPopulatesResults ==
    \A x \in {SampleResult, EmptyResult} :
        (/\ pc \in {"returned", "raised"}
         /\ hist.generates = 1
         /\ hist.gen_error = NoExc
         /\ response.text \in Padded({Dumps(ModelDump(x))}))
          => /\ pc = "returned"
             /\ state.errors = <<>>
             /\ state.file_classification = x.fileClassification
             /\ state.project_info = x.projectInfo
             /\ state.project_report = x.projectReport
\* A padded body without a parsed object, parsed and validated into the
\* three fields.
C11_Witness ==
    /\ ResponseResolved
    /\ response.parsed = NoParsed
    /\ response.text = << WS >> \o SampleText \o << WS >>
    /\ state.errors = <<>>
    /\ state.project_report = JStr("report")
    /\ Get(state.file_classification, "drawingsFiles") = JArr(<< JInt(0), JInt(2) >>)

\* C12 as stated: without a parsed object, the raw diagnostic output is the
\* response text character for character as the service returned it.
C12_RawIsVerbatim ==
    (ResponseResolved /\ response.parsed = NoParsed)
      => state.raw_extractor_output = response.text

\* C12: without a parsed object, the raw diagnostic output is the response
\* text with the whitespace before and after it removed (the empty text when
\* the response has none): the text is some whitespace, the raw output, some
\* whitespace, and the raw output neither begins nor ends with whitespace.  It
\* is stored whether or not the text then parses and validates.
C12_RawIsStrippedText ==
    (ResponseResolved /\ response.parsed = NoParsed)
      => LET raw == state.raw_extractor_output
             text == IF response.text = NoText THEN <<>> ELSE response.text IN
         /\ \E a, b \in 0..Len(text) : text = Pad(a) \o raw \o Pad(b)
         /\ raw # <<>> => raw[1] # WS /\ raw[Len(raw)] # WS
\* A truncated body between whitespace: the parse fails and the raw output is
\* the body without that whitespace.
C12_Witness ==
    /\ ResponseResolved
    /\ response.parsed = NoParsed
    /\ response.text = << WS >> \o TruncatedText \o << WS >>
    /\ state.raw_extractor_output # response.text
    /\ state.raw_extractor_output[1] = P("{")
    /\ Len(state.errors) = 1
    /\ state.errors[1].exc.type = "JSONDecodeError"

\* json.dumps(SampleResult.model_dump()) written out token by token:
\* {"fileClassification": {"drawingsFiles": [0, 2]}, "projectInfo":
\* {"owner": "Acme"}, "projectReport": "report"}
SampleJson ==
    << P("{"), Tok("str", "fileClassification", 0), P(":"), WS,
         P("{"), Tok("str", "drawingsFiles", 0), P(":"), WS,
           P("["), Tok("int", "", 0), P(","), WS, Tok("int", "", 2), P("]"), P("}"),
       P(","), WS, Tok("str", "projectInfo", 0), P(":"), WS,
         P("{"), Tok("str", "owner", 0), P(":"), WS, Tok("str", "Acme", 0), P("}"),
       P(","), WS, Tok("str", "projectReport", 0), P(":"), WS,
         Tok("str", "report", 0), P("}") >>
\* {"fileClassification": {}, "projectInfo": {}, "projectReport": ""}
EmptyJson ==
    << P("{"), Tok("str", "fileClassification", 0), P(":"), WS, P("{"), P("}"),
       P(","), WS, Tok("str", "projectInfo", 0), P(":"), WS, P("{"), P("}"),
       P(","), WS, Tok("str", "projectReport", 0), P(":"), WS,
         Tok("str", "", 0), P("}") >>

\* C13: whenever the response carries a parsed object, the three fields are
\* that object's fields, the response text plays no part (no ParseValidation
\* error arises even when the text is no JSON), and the raw diagnostic output
\* is the JSON serialization of that object.
C13_ParsedObjectPreferred ==
    (/\ pc \in {"returned", "raised"}
     /\ hist.generates = 1
     /\ hist.gen_error = NoExc
     /\ response.parsed # NoParsed)
      => /\ pc = "returned"
         /\ state.errors = <<>>
         /\ state.file_classification = response.parsed.fileClassification
         /\ state.project_info = response.parsed.projectInfo
         /\ state.project_report = response.parsed.projectReport
         /\ response.parsed = SampleResult => state.raw_extractor_output = SampleJson
         /\ response.parsed = EmptyResult => state.raw_extractor_output = EmptyJson
\* A parsed object beside a text that is no JSON: the fields are populated.
C13_Witness ==
    /\ ResponseResolved
    /\ response.parsed = SampleResult
    /\ response.text = ProseText
    /\ state.errors = <<>>
    /\ state.project_info = SampleResult.projectInfo
    /\ state.raw_extractor_output = SampleJson

\* The references of the state that have a URI, in the state's order.
RefsWithUri == SelectSeq(state.gemini_files, LAMBDA x : x.uri # None)

\* C14: the content list of the generate request is the prompt followed by
\* exactly one part per reference of the state that has a URI, in the order
\* of the references; a reference without a URI contributes no part, and each
\* part carries its reference's URI.
C14_PromptThenOnePartPerUri ==
    hist.generates = 1
      => /\ Len(contents) = 1 + Len(RefsWithUri)
         /\ contents[1] = Prompt
         /\ \A k \in 1..Len(RefsWithUri) :
              /\ contents[k + 1].file_uri = RefsWithUri[k].uri
              /\ contents[k + 1].text = None
\* Two references, the first without a URI: the request is the prompt and
\* the second reference's part.
C14_Witness ==
    /\ hist.generates = 1
    /\ Len(state.gemini_files) = 2
    /\ state.gemini_files[1].uri = None
    /\ Len(contents) = 2
    /\ contents[2].file_uri = state.gemini_files[2].uri

\* C15 as stated: every part carries a MIME type, the reference's own when it
\* names one and "application/pdf" when it names none, the attribute missing
\* or present without a value.
C15_EveryPartHasMimeType ==
    hist.generates = 1
      => \A k \in 1..Len(RefsWithUri) :
            /\ k + 1 <= Len(contents)
            /\ contents[k + 1].mime_type =
                 (IF RefsWithUri[k].mime_type \in {None, Absent}
                    THEN "application/pdf" ELSE RefsWithUri[k].mime_type)

\* The references the script's wait loop has got back so far.
AppReturned == IF hist.entered THEN hist.entry ELSE active

\* C16: the files are polled one after another in list order.  In the
\* script's loop and in extractor_agent alike, once the status of a file has
\* been fetched, the poller of every (named) file before it in the list has
\* returned a reference that the service reported ACTIVE.
C16_PolledOneAfterAnother ==
    /\ \A k1, k2 \in 1..Len(uploaded) :
          (k1 < k2 /\ uploaded[k2].name \in hist.app_polled)
            => /\ k1 <= Len(AppReturned)
               /\ AppReturned[k1].name = uploaded[k1].name
               /\ AppReturned[k1].state = "ACTIVE"
    /\ \A k1, k2 \in 1..Len(hist.entry) :
          (k1 < k2 /\ hist.entry[k1].name # None /\ hist.entry[k2].name \in hist.polled)
            => hist.entry[k1].name \in hist.activated
    /\ InWait => /\ f = (IF pc = "app_wait" THEN uploaded[i] ELSE state.gemini_files[i])
                 /\ Len(active) = Cardinality({k \in 1..(i - 1) :
                        (IF pc = "app_wait" THEN uploaded[k] ELSE state.gemini_files[k]).name # None})
\* The script polled two files in turn, and extractor_agent is now polling
\* the second of them after the first.
C16_Witness ==
    /\ caller = "app"
    /\ pc = "agent_wait"
    /\ i = 2
    /\ fetches >= 1
    /\ Cardinality(hist.app_polled) = 2
    /\ Cardinality(hist.polled) = 2

\* C17: for every object of the three-field schema, serializing it to JSON
\* as for the raw output and then parsing and validating that text as for a
\* response without a parsed object succeeds and yields an object equal to
\* the first, field for field.
C17_SerializeParseRoundTrip ==
    rt.stage = "parsed"
      => /\ rt.ok
         /\ rt.back.fileClassification = rt.obj.fileClassification
         /\ rt.back.projectInfo = rt.obj.projectInfo
         /\ rt.back.projectReport = rt.obj.projectReport
\* An object with two classified lists and a nested project information has
\* made the round trip.
C17_Witness ==
    /\ rt.stage = "parsed"
    /\ Len(rt.obj.fileClassification.items) = 2
    /\ Len(rt.obj.fileClassification.items[2].items) = MaxListLen
    /\ rt.obj.projectInfo = JObj(<< Member("owner", JObj(<< Member("city", JStr("Oslo")) >>)) >>)
    /\ rt.back = rt.obj
    /\ Len(rt.text) > Len(EmptyJson)

\* C18: in every iteration of _wait_until_active the status is tested before
\* the deadline.  An ACTIVE answer makes the call return and a FAILED answer
\* makes it raise ProcessingFailed also when the time elapsed is already past
\* timeout_s; Timeout is raised only by an iteration whose fetch answered
\* neither ACTIVE nor FAILED, hence after at least one status fetch.
C18_StatusBeforeDeadline ==
    /\ (fetches >= 1 /\ fresh.state = "ACTIVE")
          => last.kind = "return" /\ last.value = fresh
    /\ (fetches >= 1 /\ fresh.state = "FAILED")
          => last.kind = "raise" /\ last.exc = ProcessingFailed(fresh)
    /\ last.exc.type = "TimeoutError"
          => /\ fetches >= 1
             /\ fresh.state \notin {"ACTIVE", "FAILED"}
             /\ last.state = FreshName
             /\ last.at > timeout_s
\* A FAILED answer that arrives after the deadline, after an earlier fetch.
C18_Witness ==
    /\ fetches >= 2
    /\ fresh.state = "FAILED"
    /\ last.at > timeout_s
    /\ last.exc.type = "RuntimeError"

\* C19: with every status fetch returning and the clock advancing by at
\* least the sleep interval in every iteration, a _wait_until_active call
\* always comes to an end, whatever statuses the service answers, and it
\* makes at most floor(timeout_s / 2) + 2 status fetches.
C19_WaitTerminatesWithinBound ==
    /\ [](fetches <= (timeout_s \div 2) + 2)
    /\ [][InWait /\ InWait' => fetches' = fetches + 1 /\ elapsed' >= elapsed + SleepInterval]_vars
    /\ (InWait ~> ~InWait)
\* A call that made all the fetches the bound allows, the service answering
\* a status that is none of PROCESSING, ACTIVE and FAILED to the last.
C19_Witness ==
    /\ timeout_s = 2
    /\ fetches = (timeout_s \div 2) + 2
    /\ fresh.state = "STATE_UNSPECIFIED"
    /\ last.exc.type = "TimeoutError"
    /\ ~InWait

\* C20: when a file fails to activate inside extractor_agent (a fetch answers
\* FAILED, or the call runs out of time), the workflow stops at that file:
\* no later file is polled, the state's list of references is as it was on
\* entry, exactly one error message (FileActivation) is appended, and no
\* generate call is made.
C20_ActivationFailureStopsWorkflow ==
    /\ (hist.entered /\ ~InWait /\ (hist.failed \/ hist.timedout))
          => /\ pc = "returned"
             /\ Len(state.errors) = 1
             /\ IsFileActivation(state.errors[1])
             /\ state.errors[1].exc = last.exc
    /\ (state.errors # <<>> /\ IsFileActivation(state.errors[1]))
          => /\ pc = "returned"
             /\ Len(state.errors) = 1
             /\ state.gemini_files = hist.entry
             /\ f = hist.entry[i]
             /\ \A k \in 1..Len(hist.entry) :
                   k > i => hist.entry[k].name \notin hist.polled
             /\ hist.generates = 0
             /\ contents = <<>>
             /\ response = NoResponse
             /\ ResultsUnset
\* The first of two named files fails to activate: the second is never
\* polled and the list is the one extractor_agent was called with.
C20_Witness ==
    /\ pc = "returned"
    /\ Len(state.errors) = 1
    /\ IsFileActivation(state.errors[1])
    /\ i = 1
    /\ Len(hist.entry) = 2
    /\ hist.entry[2].name # None
    /\ hist.polled = {hist.entry[1].name}
    /\ state.gemini_files = hist.entry

====
